---- MODULE Spec2Model ----
(***************************************************************************)
(* The Ethereum tracker's transition handlers (package event), the job     *)
(* store and tracker store they act on, and the validators that replay     *)
(* them.  One tracker is followed through its lifecycle on every validator *)
(* node of the run; a transition invocation is applied to every node in    *)
(* the order consensus gives, each node holding its own copy of the        *)
(* tracker, its own job store and its own validator address.               *)
(***************************************************************************)
EXTENDS Integers, FiniteSets, Sequences, TLC

VARIABLES node, last, msig, mlast, store, wrote, slast, engine, elast

vars == <<node, last, msig, mlast, store, wrote, slast, engine, elast>>

\* the variables of the multisig under collection
msvars == <<msig, mlast>>

\* the variables of the validator nodes
trvars == <<node, last>>

\* the variables of the chain state and the tracker store on it
stvars == <<store, wrote, slast>>

\* the variables of the transition engine
envars == <<engine, elast>>

(***************************************************************************)
(* Bounds of the model                                                     *)
(***************************************************************************)
\* the executor's failed attempts per job followed by the model
MaxRetrySteps == 1

\* the signers of a multisig, at most
MaxSigners == 3

\* the gas budget of the block
BlockGasLimit == 300

\* the bytes of a value written to the chain state, at most
MaxValueLen == 2

\* the balance of a tracker, at most
MaxBalance == 1

(***************************************************************************)
(* Constants of the program                                                *)
(***************************************************************************)
MaxJobRetries == 10

JobTypeETHCheckfinalty == "ethCheckFinality"
JobTypeETHBroadcast == "ethBroadcast"

\* ethereum.TrackerState values, in the order the engine declares them;
\* zero is "no such state"
NoStatus == 0
New == 1
BusyBroadcasting == 2
BusyFinalizing == 3
Finalized == 4
Minted == 5

BROADCASTING == "BROADCASTING"
FINALIZING == "FINALIZING"
FINALIZE == "FINALIZE"
MINTING == "MINTING"
CLEANUP == "CLEANUP"

\* transition.NewEngine(statuses)
Statuses == {New, BusyBroadcasting, BusyFinalizing, Finalized, Minted}

\* EthEngine.Register(...), five times
Transitions ==
    { [Name |-> BROADCASTING, From |-> New,              To |-> BusyBroadcasting],
      [Name |-> FINALIZING,   From |-> BusyBroadcasting, To |-> BusyFinalizing],
      [Name |-> FINALIZE,     From |-> BusyFinalizing,   To |-> Finalized],
      [Name |-> MINTING,      From |-> Finalized,        To |-> Minted],
      [Name |-> CLEANUP,      From |-> Minted,           To |-> NoStatus] }

TransitionNames == {t.Name : t \in Transitions}

TransitionOf(name) == CHOOSE t \in Transitions : t.Name = name

(***************************************************************************)
(* The validators and the tracker of the run                               *)
(***************************************************************************)
Validators == {"v1", "v2"}

TheTracker == "t1"

\* a tracker as created by a lock: state New, no votes
NewTracker(name) ==
    [TrackerName |-> name, State |-> New, Votes |-> {},
     FinalityReached |-> FALSE, TaskCompleted |-> FALSE]

\* tracker.CheckIfVoted(addr)
CheckIfVoted(tracker, addr) == addr \in tracker.Votes

\* tracker.GetVotes()
GetVotes(tracker) == Cardinality(tracker.Votes)

\* tracker.Finalized(): the chain-specific finality predicate
TrackerFinalized(tracker) == tracker.FinalityReached

\* tracker.GetJobID(state): the key derived from (TrackerName, TargetState)
GetJobID(tracker, state) == <<tracker.TrackerName, state>>

(***************************************************************************)
(* Jobs and the job store                                                  *)
(***************************************************************************)
NewJob(type, name, state) ==
    [Type |-> type, TrackerName |-> name, TargetState |-> state,
     RetryCount |-> 0, Done |-> FALSE]

NewETHBroadcast(name, state) == NewJob(JobTypeETHBroadcast, name, state)

NewETHCheckFinality(name, state) == NewJob(JobTypeETHCheckfinalty, name, state)

\* job.GetJobID()
JobID(job) == <<job.TrackerName, job.TargetState>>

\* job.IsDone()
IsDone(job) == job.Done

\* the job store is the set of the records it holds
JobsWithID(jobs, id) == {j \in jobs : JobID(j) = id}

\* JobStore.GetJob(id): the job, or the job-not-found error
GetJob(jobs, id) ==
    IF JobsWithID(jobs, id) = {}
    THEN [err |-> TRUE, job |-> NewJob("", "", NoStatus)]
    ELSE [err |-> FALSE, job |-> CHOOSE j \in JobsWithID(jobs, id) : TRUE]

\* JobStore.SaveJob(job): persists under the job's key, overwriting
SaveJob(jobs, job, fail) ==
    IF fail
    THEN [err |-> TRUE, jobs |-> jobs]
    ELSE [err |-> FALSE, jobs |-> (jobs \ JobsWithID(jobs, JobID(job))) \cup {job}]

\* JobStore.DeleteJob(job): removes the record under the job's key
DeleteJob(jobs, job, fail) ==
    IF fail
    THEN [err |-> TRUE, jobs |-> jobs]
    ELSE [err |-> FALSE, jobs |-> jobs \ JobsWithID(jobs, JobID(job))]

(***************************************************************************)
(* The tracker store: the names of the tracker records it holds            *)
(***************************************************************************)
TrkDeleteOutcomes == {"ok", "notdeleted", "err"}

\* TrackerStore.Delete(name) -> (res, err)
TrackerStoreDelete(tstore, name, outcome) ==
    IF outcome = "err"
    THEN [res |-> FALSE, err |-> TRUE, tstore |-> tstore]
    ELSE IF outcome = "notdeleted" \/ name \notin tstore
    THEN [res |-> FALSE, err |-> FALSE, tstore |-> tstore]
    ELSE [res |-> TRUE, err |-> FALSE, tstore |-> tstore \ {name}]

(***************************************************************************)
(* The transition handlers.  ctx is the ethereum.TrackerCtx handed to the  *)
(* handler: the tracker (a reference: what the handler assigns stays       *)
(* assigned when it returns an error), the job store, the tracker store    *)
(* and the validator's own address.  io is what the environment decides    *)
(* during the call: whether the context is of the expected type and which  *)
(* store operations fail.                                                  *)
(***************************************************************************)
\* what a handler leaves behind; saved lists the ids of the jobs the call
\* wrote with SaveJob
Result(err, tracker, jobs, tstore, saved) ==
    [err |-> err, Tracker |-> tracker, JobStore |-> jobs, TrackerStore |-> tstore,
     saved |-> saved]

\* a handler returning err with everything as it found it
Unchanged(err, ctx) == Result(err, ctx.Tracker, ctx.JobStore, ctx.TrackerStore, {})

\* Broadcasting without its check of the current state
BroadcastingNoStateCheck(ctx, io) ==
    IF ~io.castOk THEN Unchanged("cast", ctx)
    ELSE LET tracker == [ctx.Tracker EXCEPT !.State = BusyBroadcasting]
             job == NewETHBroadcast(tracker.TrackerName, tracker.State)
             saved == SaveJob(ctx.JobStore, job, io.saveFail)
         IN  IF saved.err
             THEN Result("savejob", tracker, ctx.JobStore, ctx.TrackerStore, {})
             ELSE Result("nil", tracker, saved.jobs, ctx.TrackerStore, {JobID(job)})

Broadcasting(ctx, io) ==
    IF ~io.castOk THEN Unchanged("cast", ctx)
    ELSE IF ctx.Tracker.State # New THEN Unchanged("state", ctx)
    ELSE LET tracker == [ctx.Tracker EXCEPT !.State = BusyBroadcasting]
             job == NewETHBroadcast(tracker.TrackerName, tracker.State)
             saved == SaveJob(ctx.JobStore, job, io.saveFail)
         IN  IF saved.err
             THEN Result("savejob", tracker, ctx.JobStore, ctx.TrackerStore, {})
             ELSE Result("nil", tracker, saved.jobs, ctx.TrackerStore, {JobID(job)})

\* the end of Finalizing: advance on a vote
FinalizingAdvance(tracker, jobs, tstore, saved) ==
    IF GetVotes(tracker) > 0
    THEN Result("nil", [tracker EXCEPT !.State = BusyFinalizing], jobs, tstore, saved)
    ELSE Result("nil", tracker, jobs, tstore, saved)

\* a Finalizing that looks for the broadcast job whether or not the
\* validator has voted
FinalizingIgnoringVote(ctx, io) ==
    IF ~io.castOk THEN Unchanged("cast", ctx)
    ELSE IF ctx.Tracker.State # BusyBroadcasting THEN Unchanged("state", ctx)
    ELSE LET tracker == ctx.Tracker
             got == GetJob(ctx.JobStore, GetJobID(tracker, BusyBroadcasting))
             job == NewETHCheckFinality(tracker.TrackerName, BusyFinalizing)
             saved == SaveJob(ctx.JobStore, job, io.saveFail)
         IN  IF got.err THEN Unchanged("getjob", ctx)
             ELSE IF ~IsDone(got.job)
             THEN FinalizingAdvance(tracker, ctx.JobStore, ctx.TrackerStore, {})
             ELSE IF saved.err THEN Unchanged("savejob", ctx)
             ELSE FinalizingAdvance(tracker, saved.jobs, ctx.TrackerStore, {JobID(job)})

Finalizing(ctx, io) ==
    IF ~io.castOk THEN Unchanged("cast", ctx)
    ELSE IF ctx.Tracker.State # BusyBroadcasting THEN Unchanged("state", ctx)
    ELSE LET tracker == ctx.Tracker
             voted == CheckIfVoted(tracker, ctx.CurrNodeAddr)
             got == GetJob(ctx.JobStore, GetJobID(tracker, BusyBroadcasting))
             job == NewETHCheckFinality(tracker.TrackerName, BusyFinalizing)
             saved == SaveJob(ctx.JobStore, job, io.saveFail)
         IN  IF voted
             THEN FinalizingAdvance(tracker, ctx.JobStore, ctx.TrackerStore, {})
             ELSE IF got.err THEN Unchanged("getjob", ctx)
             ELSE IF ~IsDone(got.job)
             THEN FinalizingAdvance(tracker, ctx.JobStore, ctx.TrackerStore, {})
             ELSE IF saved.err THEN Unchanged("savejob", ctx)
             ELSE FinalizingAdvance(tracker, saved.jobs, ctx.TrackerStore, {JobID(job)})

\* the end of Finalization advancing whether finalized or not
FinalizationAdvanceAlways(tracker, jobs, tstore, saved) ==
    Result("nil", [tracker EXCEPT !.State = Finalized], jobs, tstore, saved)

\* the end of Finalization: advance once finalized
FinalizationAdvance(tracker, jobs, tstore, saved) ==
    IF TrackerFinalized(tracker)
    THEN Result("nil", [tracker EXCEPT !.State = Finalized], jobs, tstore, saved)
    ELSE Result("nil", tracker, jobs, tstore, saved)

\* Finalization's job keyed by the state the transition leads to
FinalizationJobAtTo(tracker) == NewETHCheckFinality(tracker.TrackerName, Finalized)

\* the job Finalization saves
FinalizationJob(tracker) == NewETHCheckFinality(tracker.TrackerName, tracker.State)

Finalization(ctx, io) ==
    IF ~io.castOk THEN Unchanged("cast", ctx)
    ELSE IF ctx.Tracker.State # BusyFinalizing THEN Unchanged("state", ctx)
    ELSE LET tracker == ctx.Tracker
             voted == CheckIfVoted(tracker, ctx.CurrNodeAddr)
             job == FinalizationJob(tracker)
             saved == SaveJob(ctx.JobStore, job, io.saveFail)
         IN  IF voted
             THEN FinalizationAdvance(tracker, ctx.JobStore, ctx.TrackerStore, {})
             ELSE IF saved.err THEN Unchanged("savejob", ctx)
             ELSE FinalizationAdvance(tracker, saved.jobs, ctx.TrackerStore, {JobID(job)})

\* Minting without its check of the current state
MintingNoStateCheck(ctx, io) ==
    IF ~io.castOk THEN Unchanged("cast", ctx)
    ELSE IF ctx.Tracker.TaskCompleted
    THEN Result("nil", [ctx.Tracker EXCEPT !.State = Minted], ctx.JobStore,
                ctx.TrackerStore, {})
    ELSE Unchanged("nil", ctx)

Minting(ctx, io) ==
    IF ~io.castOk THEN Unchanged("cast", ctx)
    ELSE IF ctx.Tracker.State # Finalized THEN Unchanged("state", ctx)
    ELSE IF ctx.Tracker.TaskCompleted
    THEN Result("nil", [ctx.Tracker EXCEPT !.State = Minted], ctx.JobStore,
                ctx.TrackerStore, {})
    ELSE Unchanged("nil", ctx)

\* the id of the finality-check job, the one the comment above the second
\* DeleteJob names
CleanupSecondJobIDFinality(tracker) == GetJobID(tracker, BusyFinalizing)

\* the id of the job Cleanup reads before its second DeleteJob
CleanupSecondJobID(tracker) == GetJobID(tracker, BusyBroadcasting)

\* "if err != nil || !res { return err }": what Cleanup returns after
\* TrackerStore.Delete
CleanupDeleteResult(deleted) == IF deleted.err THEN "trkdelete" ELSE "nil"

Cleanup(ctx, io) ==
    IF ~io.castOk THEN Unchanged("cast", ctx)
    ELSE LET tracker == ctx.Tracker
             bgot == GetJob(ctx.JobStore, GetJobID(tracker, BusyBroadcasting))
             bdel == DeleteJob(ctx.JobStore, bgot.job, io.delFail1)
             fgot == GetJob(bdel.jobs, CleanupSecondJobID(tracker))
             fdel == DeleteJob(bdel.jobs, fgot.job, io.delFail2)
             deleted == TrackerStoreDelete(ctx.TrackerStore, tracker.TrackerName, io.trkDel)
         IN  IF bgot.err THEN Unchanged("getjob", ctx)
             ELSE IF bdel.err THEN Unchanged("deletejob", ctx)
             ELSE IF fgot.err
             THEN Result("getjob", tracker, bdel.jobs, ctx.TrackerStore, {})
             ELSE IF fdel.err
             THEN Result("deletejob", tracker, bdel.jobs, ctx.TrackerStore, {})
             ELSE Result(CleanupDeleteResult(deleted), tracker, fdel.jobs,
                         deleted.tstore, {})

\* Transition.Fn of the transition registered under name
Handler(name, ctx, io) ==
    CASE name = BROADCASTING -> Broadcasting(ctx, io)
      [] name = FINALIZING   -> Finalizing(ctx, io)
      [] name = FINALIZE     -> Finalization(ctx, io)
      [] name = MINTING      -> Minting(ctx, io)
      [] name = CLEANUP      -> Cleanup(ctx, io)

(***************************************************************************)
(* What the environment decides during one handler call                    *)
(***************************************************************************)
IO(c, s, d1, d2, t) ==
    [castOk |-> c, saveFail |-> s, delFail1 |-> d1, delFail2 |-> d2, trkDel |-> t]

NoFailIO == IO(TRUE, FALSE, FALSE, FALSE, "ok")

NoCall == [name |-> "none", err |-> "nil", io |-> NoFailIO, resaved |-> {}]

(***************************************************************************)
(* BTCMultiSig (package keys): an M-of-N collection of signatures over a   *)
(* message.  A Go slice is a record that tells nil from empty; an Address  *)
(* is its bytes, compared by content; signer index i is Go's, from 0, and  *)
(* slot i is element i + 1 of the sequence.                                *)
(***************************************************************************)
Nil == [isNil |-> TRUE, elems |-> <<>>]

Slice(seq) == [isNil |-> FALSE, elems |-> seq]

\* the zero value of BTCSignature, what make([]BTCSignature, n) holds
ZeroSignature == [Index |-> 0, Address |-> <<>>, Sign |-> Nil]

\* a BTCMultiSig value; Signatures nil and Signatures empty are both <<>>
MultiSig(msg, m, signers, signatures) ==
    [Msg |-> msg, M |-> m, Signers |-> signers, Signatures |-> signatures]

\* the value of a multisig that was not built
NoMultiSig == MultiSig(Nil, 0, Nil, <<>>)

Made(v) == [err |-> "nil", v |-> v]

Failed(err, v) == [err |-> err, v |-> v]

NewBTCMultiSig(msg, m, signers) ==
    IF signers.isNil
    THEN Failed("ErrMissSigners", NoMultiSig)
    ELSE IF m < 0 \/ m > Len(signers.elems)
    THEN Failed("ErrInvalidThreshold", NoMultiSig)
    ELSE Made(MultiSig(msg, m, signers,
                       [i \in 1..Len(signers.elems) |-> ZeroSignature]))

\* the index expressions m.Signers[i] and m.Signatures[i] do not panic
InRange(v, i) ==
    /\ 0 <= i
    /\ i < Len(v.Signers.elems)
    /\ i < Len(v.Signatures)

\* AddSignature without the comparison of the signer's address
AddSignatureUnchecked(v, s) ==
    IF ~InRange(v, s.Index)
    THEN Failed("panic", v)
    ELSE Made([v EXCEPT !.Signatures[s.Index + 1] = s])

AddSignature(v, s) ==
    IF ~InRange(v, s.Index)
    THEN Failed("panic", v)
    ELSE IF s.Address # v.Signers.elems[s.Index + 1]
    THEN Failed("ErrNotExpectedSigner", v)
    ELSE Made([v EXCEPT !.Signatures[s.Index + 1] = s])

\* the slots counted by IsValid: those whose Sign is not nil
SignedSlots(v) ==
    {i \in 1..Len(v.Signatures) : ~v.Signatures[i].Sign.isNil}

IsValid(v) == ~(Cardinality(SignedSlots(v)) < v.M)

\* encoding/json of a []byte: null for nil, else the text of its bytes
MarshalBytes(b) ==
    IF b.isNil THEN [null |-> TRUE, text |-> <<>>]
    ELSE [null |-> FALSE, text |-> b.elems]

UnmarshalBytes(j) == IF j.null THEN Nil ELSE Slice(j.text)

\* encoding/json of a []Address: null for nil, else the array of addresses
MarshalAddresses(a) ==
    IF a.isNil THEN [null |-> TRUE, items |-> <<>>]
    ELSE [null |-> FALSE, items |-> a.elems]

UnmarshalAddresses(j) == IF j.null THEN Nil ELSE Slice(j.items)

MarshalSignature(s) ==
    [index |-> s.Index, address |-> s.Address, sign |-> MarshalBytes(s.Sign)]

UnmarshalSignature(j) ==
    [Index |-> j.index, Address |-> j.address, Sign |-> UnmarshalBytes(j.sign)]

\* json.Marshal(m): the document with the fields msg, m, signers, signatures
Marshal(v) ==
    [decodable |-> TRUE,
     msg |-> MarshalBytes(v.Msg),
     m |-> v.M,
     signers |-> MarshalAddresses(v.Signers),
     signatures |-> [i \in 1..Len(v.Signatures) |->
                        MarshalSignature(v.Signatures[i])]]

\* json.Unmarshal(b, m) of a document that holds all four fields
Unmarshal(b) ==
    MultiSig(UnmarshalBytes(b.msg), b.m, UnmarshalAddresses(b.signers),
             [i \in 1..Len(b.signatures) |-> UnmarshalSignature(b.signatures[i])])

\* the signatures whose Sign is not nil, in slot order
Signed(sig) == ~sig.Sign.isNil

\* Bytes that encodes every slot, the empty ones too
BytesUnfiltered(v) == Marshal(v)

Bytes(v) ==
    Marshal([v EXCEPT !.Signatures = SelectSeq(v.Signatures, Signed)])

\* utils.Hash: equal bytes give equal hashes
Hash(b) == [hash |-> b]

\* Address computed over the encoding with the signatures in it
AddressWithSignatures(v) == Hash(Bytes(v))

Address(v) == Hash(Bytes(MultiSig(v.Msg, v.M, v.Signers, <<>>)))

\* the loop of FromBytes: every decoded signature goes to the slot of its
\* Index; an Index outside the slots panics with the slots filled so far
RECURSIVE PlaceSignatures(_, _)
PlaceSignatures(items, slots) ==
    IF items = <<>>
    THEN [err |-> "nil", slots |-> slots]
    ELSE LET item == Head(items)
         IN  IF item.Index < 0 \/ item.Index >= Len(slots)
             THEN [err |-> "panic", slots |-> slots]
             ELSE PlaceSignatures(Tail(items),
                                  [slots EXCEPT ![item.Index + 1] = item])

FromBytes(v, b) ==
    IF ~b.decodable
    THEN Failed("json", v)
    ELSE LET d == Unmarshal(b)
             placed == PlaceSignatures(
                           d.Signatures,
                           [i \in 1..Len(d.Signers.elems) |-> ZeroSignature])
         IN  [err |-> placed.err, v |-> [d EXCEPT !.Signatures = placed.slots]]

\* the first loop of GetSignaturesInOrder: the non-empty signatures, each at
\* the position of its Index
RECURSIVE TempSignatures(_, _)
TempSignatures(sigs, temp) ==
    IF sigs = <<>>
    THEN temp
    ELSE LET s == Head(sigs)
         IN  TempSignatures(Tail(sigs),
                            IF Len(s.Sign.elems) = 0
                            THEN temp
                            ELSE [temp EXCEPT ![s.Index + 1] = s.Sign.elems])

NonEmpty(sig) == Len(sig) # 0

\* GetSignaturesInOrder without the second loop's skip of empty entries
GetSignaturesInOrderNoSkip(v) ==
    TempSignatures(v.Signatures, [i \in 1..Len(v.Signers.elems) |-> <<>>])

GetSignaturesInOrder(v) ==
    SelectSeq(TempSignatures(v.Signatures,
                             [i \in 1..Len(v.Signers.elems) |-> <<>>]),
              NonEmpty)

(***************************************************************************)
(* The inputs of the multisig's operations                                 *)
(***************************************************************************)
\* the address of the signer at index i
SignerAt(i) == <<i + 1>>

\* a list of n signers; nil when n is -1
SignersOf(n) == IF n < 0 THEN Nil ELSE Slice([i \in 1..n |-> SignerAt(i - 1)])

\* signature bytes: nil, empty, or one byte
SignOf(k) == IF k = 0 THEN Nil ELSE IF k = 1 THEN Slice(<<>>) ELSE Slice(<<k>>)

\* the kinds of signature bytes an input carries
SignKinds == 0..2

\* a message: nil or one byte
MsgOf(k) == IF k = 0 THEN Nil ELSE Slice(<<k>>)

BTCSignature(i, a, k) == [Index |-> i, Address |-> SignerAt(a), Sign |-> SignOf(k)]

\* the record of the operation the last step applied to the multisig
Op(op, err, msg, m, signers, sig) ==
    [op |-> op, err |-> err, msg |-> msg, m |-> m, signers |-> signers,
     sig |-> sig]

NoOp == Op("none", "nil", Nil, 0, Nil, ZeroSignature)

(***************************************************************************)
(* The gas-metered chain state (package storage): a key/value store whose  *)
(* operations are charged to a gas calculator.  A key and a value are      *)
(* sequences of bytes; the store is a function from the keys written to    *)
(* their values.                                                           *)
(***************************************************************************)
READFLAT == 20
READBYTES == 2
WRITEFLAT == 200
WRITEBYTES == 20
CHECKEXIST == 20
DELETE == 50

NewGasCalculator(limit) == [limit |-> limit, consumed |-> 0]

IsEnough(g) == g.consumed >= g.limit

GetConsumed(g) == g.consumed

\* Consume has a value receiver: g.consumed += currentGasCost is done on the
\* method's copy of the calculator, which is dropped at return; the caller's
\* calculator is g as it was.  Gas is a uint64, far above the sums met here.
Consume(g, amount, category, allowOverflow) ==
    LET currentGasCost == amount * category
        copy == [g EXCEPT !.consumed = @ + currentGasCost]
    IN  IF allowOverflow
        THEN [ok |-> TRUE, g |-> g, copy |-> copy]
        ELSE IF g.consumed >= g.limit
        THEN [ok |-> FALSE, g |-> g, copy |-> g]
        ELSE [ok |-> TRUE, g |-> g, copy |-> copy]

\* ChainState.Set: writes the value under the key, or fails and writes nothing
ChainStateSet(kv, key, value, fail) ==
    IF fail
    THEN [err |-> "ErrSetFailed", kv |-> kv]
    ELSE [err |-> "nil",
          kv |-> [k \in DOMAIN kv \cup {key} |->
                     IF k = key THEN value ELSE kv[k]]]

\* ChainState.Get: the value under the key, nil when there is none
ChainStateGet(kv, key) ==
    IF key \in DOMAIN kv THEN Slice(kv[key]) ELSE Nil

ChainStateExists(kv, key) == key \in DOMAIN kv

\* ChainState.Remove: the value removed and whether there was one
ChainStateRemove(kv, key) ==
    IF key \in DOMAIN kv
    THEN [value |-> Slice(kv[key]), ok |-> TRUE,
          kv |-> [k \in DOMAIN kv \ {key} |-> kv[k]]]
    ELSE [value |-> Nil, ok |-> FALSE, kv |-> kv]

GasChainState(kv, gas) == [kv |-> kv, gas |-> gas]

\* a Set that writes the value before it asks the calculator
GasSetWritingFirst(cs, key, value, fail) ==
    LET written == ChainStateSet(cs.kv, key, value, fail)
        flat == Consume(cs.gas, 1, WRITEFLAT, FALSE)
    IN  IF ~flat.ok
        THEN [err |-> "ErrExceedGasLimit", cs |-> GasChainState(written.kv, flat.g)]
        ELSE [err |-> written.err,
              cs |-> GasChainState(written.kv,
                                   Consume(flat.g, Len(value), WRITEBYTES, TRUE).g)]

GasSet(cs, key, value, fail) ==
    LET flat == Consume(cs.gas, 1, WRITEFLAT, FALSE)
        written == ChainStateSet(cs.kv, key, value, fail)
    IN  IF ~flat.ok
        THEN [err |-> "ErrExceedGasLimit", cs |-> GasChainState(cs.kv, flat.g)]
        ELSE IF written.err # "nil"
        THEN [err |-> written.err, cs |-> GasChainState(written.kv, flat.g)]
        ELSE [err |-> "nil",
              cs |-> GasChainState(written.kv,
                                   Consume(flat.g, Len(value), WRITEBYTES, TRUE).g)]

GasGet(cs, key) ==
    LET flat == Consume(cs.gas, 1, READFLAT, FALSE)
        value == ChainStateGet(cs.kv, key)
    IN  IF ~flat.ok
        THEN [value |-> Nil, cs |-> GasChainState(cs.kv, flat.g)]
        ELSE [value |-> value,
              cs |-> GasChainState(cs.kv,
                                   Consume(flat.g, Len(value.elems), READBYTES, TRUE).g)]

GasExists(cs, key) ==
    LET flat == Consume(cs.gas, 1, CHECKEXIST, FALSE)
    IN  IF ~flat.ok
        THEN [exist |-> FALSE, cs |-> GasChainState(cs.kv, flat.g)]
        ELSE [exist |-> ChainStateExists(cs.kv, key),
              cs |-> GasChainState(cs.kv, flat.g)]

GasRemove(cs, key) ==
    LET flat == Consume(cs.gas, 1, DELETE, FALSE)
        removed == ChainStateRemove(cs.kv, key)
    IN  IF ~flat.ok
        THEN [value |-> Nil, ok |-> FALSE, cs |-> GasChainState(cs.kv, flat.g)]
        ELSE [value |-> removed.value, ok |-> removed.ok,
              cs |-> GasChainState(removed.kv, flat.g)]

(***************************************************************************)
(* The tracker store (package bitcoin): trackers by name in the chain      *)
(* state, under prefix + lower-case(name).  A name is its ASCII bytes.     *)
(***************************************************************************)
\* the bytes of "tracker_"
TrackerUnderscore == <<116, 114, 97, 99, 107, 101, 114, 95>>

\* storage.Prefix(prefix) of the store
StorePrefix == <<112, 95>>

\* strings.ToLower on ASCII bytes
ToLowerByte(b) == IF 65 <= b /\ b <= 90 THEN b + 32 ELSE b

ToLower(name) == [i \in 1..Len(name) |-> ToLowerByte(name[i])]

\* a key derivation that keeps the case of the name
KeyFromNameKeepingCase(name) == name

keyFromName(name) == ToLower(name)

\* the key under which the tracker of that name lives
TrackerKey(name) == StorePrefix \o keyFromName(name)

\* bytes.Compare(a, b) < 0
RECURSIVE KeyLess(_, _)
KeyLess(a, b) ==
    IF b = <<>> THEN FALSE
    ELSE IF a = <<>> THEN TRUE
    ELSE IF Head(a) # Head(b) THEN Head(a) < Head(b)
    ELSE KeyLess(Tail(a), Tail(b))

\* a bitcoin.Tracker: its name, balance and whether it is free for a lock
Tracker(name, balance, available) ==
    [Name |-> name, CurrentBalance |-> balance, Available |-> available]

IsAvailable(t) == t.Available

GetBalance(t) == t.CurrentBalance

\* the result of a lookup that found no tracker
NoTracker == Tracker(<<>>, 0, FALSE)

\* the persistent serializer: the fields of the tracker one after the other
Serialize(t) == <<t.Name, t.CurrentBalance, t.Available>>

Deserialize(data) ==
    IF Len(data) = 3
    THEN [err |-> FALSE, tracker |-> Tracker(data[1], data[2], data[3])]
    ELSE [err |-> TRUE, tracker |-> NoTracker]

\* storage.State over the gas-metered chain state
StateSet(cs, key, value, fail) == GasSet(cs, key, value, fail)

StateGet(cs, key) == GasGet(cs, key)

StateExists(cs, key) == GasExists(cs, key)

\* the keys IterateRange visits: those in [start, end), ascending
RECURSIVE Ascending(_)
Ascending(keys) ==
    IF keys = {} THEN <<>>
    ELSE LET least == CHOOSE k \in keys : \A j \in keys : j = k \/ KeyLess(k, j)
         IN  <<least>> \o Ascending(keys \ {least})

IterateRange(kv, start, end) ==
    Ascending({k \in DOMAIN kv : ~KeyLess(k, start) /\ KeyLess(k, end)})

TrackerStoreGet(cs, name) ==
    LET key == TrackerKey(name)
        exists == StateExists(cs, key)
        got == StateGet(exists.cs, key)
        d == Deserialize(got.value.elems)
    IN  IF ~exists.exist
        THEN [err |-> "ErrTrackerNotFound", tracker |-> NoTracker, cs |-> exists.cs]
        ELSE IF d.err
        THEN [err |-> "deserialize", tracker |-> NoTracker, cs |-> got.cs]
        ELSE [err |-> "nil", tracker |-> d.tracker, cs |-> got.cs]

SetTracker(cs, name, tracker, serFail, fail) ==
    LET named == [tracker EXCEPT !.Name = name]
        set == StateSet(cs, TrackerKey(name), Serialize(named), fail)
    IN  IF serFail
        THEN [err |-> "serialize", cs |-> cs]
        ELSE [err |-> set.err, cs |-> set.cs]

\* GetBalance() < lowestAmount: lowestAmount starts at 999999999999999, above
\* every balance met here, and is then the balance of the tracker kept
BelowLowest(balance, tempTracker) ==
    IF tempTracker.found THEN balance < tempTracker.tracker.CurrentBalance
    ELSE TRUE

\* the visit of GetTrackerForLock over the keys in order: the tracker kept
RECURSIVE VisitForLock(_, _, _)
VisitForLock(kv, keys, tempTracker) ==
    IF keys = <<>>
    THEN tempTracker
    ELSE LET d == Deserialize(kv[Head(keys)])
         IN  IF ~d.err /\ IsAvailable(d.tracker)
                       /\ BelowLowest(GetBalance(d.tracker), tempTracker)
             THEN VisitForLock(kv, Tail(keys),
                               [found |-> TRUE, tracker |-> d.tracker])
             ELSE VisitForLock(kv, Tail(keys), tempTracker)

\* start and end of the scan: prefix + "tracker_  " and prefix + "tracker_~~"
ForLockRange(bound) ==
    IF bound = "start"
    THEN StorePrefix \o TrackerUnderscore \o <<32, 32>>
    ELSE StorePrefix \o TrackerUnderscore \o <<126, 126>>

GetTrackerForLock(cs) ==
    LET keys == IterateRange(cs.kv, ForLockRange("start"), ForLockRange("end"))
        temp == VisitForLock(cs.kv, keys, [found |-> FALSE, tracker |-> NoTracker])
    IN  IF ~temp.found
        THEN [err |-> "no tracker found", tracker |-> NoTracker]
        ELSE [err |-> "nil", tracker |-> temp.tracker]

(***************************************************************************)
(* The transition engine (package transition): the transitions registered  *)
(* on it, one per name.                                                    *)
(***************************************************************************)
Transition(name, fn, from, to) == [Name |-> name, Fn |-> fn, From |-> from, To |-> to]

\* a Register that replaces the transition registered under the name
RegisterReplacing(registered, t) ==
    IF t.From \notin Statuses \/ (t.To # NoStatus /\ t.To \notin Statuses)
    THEN [err |-> "ErrInvalidStatus", engine |-> registered]
    ELSE [err |-> "nil", engine |-> {r \in registered : r.Name # t.Name} \cup {t}]

Register(registered, t) ==
    IF t.From \notin Statuses \/ (t.To # NoStatus /\ t.To \notin Statuses)
    THEN [err |-> "ErrInvalidStatus", engine |-> registered]
    ELSE IF \E r \in registered : r.Name = t.Name
    THEN [err |-> "ErrDuplicateName", engine |-> registered]
    ELSE [err |-> "nil", engine |-> registered \cup {t}]

(***************************************************************************)
(* The chain state, the trackers written to it and the engine, as they are *)
(* before anything is written or registered; the record of the last call.  *)
(***************************************************************************)
EmptyKV == [k \in {} |-> <<>>]

\* the record of the call the last step made on the store; key is the key
\* of a call on the chain state and the name of a call on the tracker store
StoreOp(op, err, key, tracker, value, flag) ==
    [op |-> op, err |-> err, key |-> key, tracker |-> tracker, value |-> value,
     flag |-> flag]

NoStoreOp == StoreOp("none", "nil", <<>>, NoTracker, Nil, FALSE)

IdleStore ==
    /\ store = GasChainState(EmptyKV, NewGasCalculator(0))
    /\ wrote = EmptyKV
    /\ slast = NoStoreOp

\* the record of the last Register call
NoRegister == [op |-> "none", err |-> "nil", t |-> Transition("none", "none", 0, 0)]

IdleEngine ==
    /\ engine = {}
    /\ elast = NoRegister

(***************************************************************************)
(* The state: per validator node its tracker, job store, tracker store and *)
(* address; last holds, per node, the transition invoked by the step just  *)
(* taken, what it returned, what the environment decided and the ids of    *)
(* the jobs the call saved over a job already stored.                      *)
(***************************************************************************)
Nodes == DOMAIN node

CtxOf(nd) ==
    [Tracker |-> nd.tracker, JobStore |-> nd.jobs, TrackerStore |-> nd.tstore,
     CurrNodeAddr |-> nd.addr]

InitNode(addr) ==
    [tracker |-> NewTracker(TheTracker), jobs |-> {}, tstore |-> {TheTracker},
     addr |-> addr]

\* one validator node, of any address
Init ==
    /\ \E a \in Validators : node = [n \in {"n1"} |-> InitNode(a)]
    /\ last = [n \in {"n1"} |-> NoCall]
    /\ msig = [made |-> FALSE, v |-> NoMultiSig]
    /\ mlast = NoOp
    /\ IdleStore
    /\ IdleEngine

\* engine.Apply(name, ...) of one ordered transaction, on every node: the
\* nodes and the record of the call afterwards
Apply(name, io) ==
    LET r == [n \in Nodes |-> Handler(name, CtxOf(node[n]), io)]
    IN  [node |-> [n \in Nodes |->
                      [node[n] EXCEPT !.tracker = r[n].Tracker,
                                      !.jobs = r[n].JobStore,
                                      !.tstore = r[n].TrackerStore]],
         last |-> [n \in Nodes |->
                      [name |-> name, err |-> r[n].err, io |-> io,
                       resaved |-> {id \in r[n].saved :
                                       JobsWithID(node[n].jobs, id) # {}}]]]

\* a call handed a context of another type returns before any store
\* operation: no failure of one is decided during it
DoBroadcasting ==
    \E c \in BOOLEAN, s \in BOOLEAN :
        LET a == Apply(BROADCASTING, IO(c, s, FALSE, FALSE, "ok"))
        IN  (c \/ ~s) /\ node' = a.node /\ last' = a.last /\ UNCHANGED <<msvars, stvars, envars>>

DoFinalizing ==
    \E c \in BOOLEAN, s \in BOOLEAN :
        LET a == Apply(FINALIZING, IO(c, s, FALSE, FALSE, "ok"))
        IN  (c \/ ~s) /\ node' = a.node /\ last' = a.last /\ UNCHANGED <<msvars, stvars, envars>>

DoFinalization ==
    \E c \in BOOLEAN, s \in BOOLEAN :
        LET a == Apply(FINALIZE, IO(c, s, FALSE, FALSE, "ok"))
        IN  (c \/ ~s) /\ node' = a.node /\ last' = a.last /\ UNCHANGED <<msvars, stvars, envars>>

DoMinting ==
    \E c \in BOOLEAN :
        LET a == Apply(MINTING, IO(c, FALSE, FALSE, FALSE, "ok"))
        IN  node' = a.node /\ last' = a.last /\ UNCHANGED <<msvars, stvars, envars>>

DoCleanup ==
    \E c \in BOOLEAN, d1 \in BOOLEAN, d2 \in BOOLEAN, t \in TrkDeleteOutcomes :
        LET a == Apply(CLEANUP, IO(c, FALSE, d1, d2, t))
        IN  (c \/ (~d1 /\ ~d2 /\ t = "ok")) /\ node' = a.node /\ last' = a.last /\ UNCHANGED <<msvars, stvars, envars>>

\* a validator's vote transaction, recorded in the tracker on every node
Vote ==
    \E v \in Validators :
        /\ \A n \in Nodes : v \notin node[n].tracker.Votes
        /\ node' = [n \in Nodes |->
                      [node[n] EXCEPT !.tracker.Votes = @ \cup {v}]]
        /\ last' = [n \in Nodes |-> NoCall]
        /\ UNCHANGED <<msvars, stvars, envars>>

\* the chain-specific finality predicate becomes true
ReachFinality ==
    /\ \A n \in Nodes : ~node[n].tracker.FinalityReached
    /\ node' = [n \in Nodes |-> [node[n] EXCEPT !.tracker.FinalityReached = TRUE]]
    /\ last' = [n \in Nodes |-> NoCall]
    /\ UNCHANGED <<msvars, stvars, envars>>

\* the completion flag is set
CompleteTask ==
    /\ \A n \in Nodes : ~node[n].tracker.TaskCompleted
    /\ node' = [n \in Nodes |-> [node[n] EXCEPT !.tracker.TaskCompleted = TRUE]]
    /\ last' = [n \in Nodes |-> NoCall]
    /\ UNCHANGED <<msvars, stvars, envars>>

\* the local executor of node n completes job j and saves it as done; a job
\* that has used up its retries is not attempted again
ExecDone ==
    \E n \in Nodes : \E j \in node[n].jobs :
        /\ ~j.Done
        /\ j.RetryCount < MaxJobRetries
        /\ node' = [node EXCEPT ![n].jobs =
                      SaveJob(@, [j EXCEPT !.Done = TRUE], FALSE).jobs]
        /\ last' = [m \in Nodes |-> NoCall]
        /\ UNCHANGED <<msvars, stvars, envars>>

\* the local executor of node n fails an attempt at job j and saves the count
ExecFail ==
    \E n \in Nodes : \E j \in node[n].jobs :
        /\ ~j.Done
        /\ j.RetryCount < MaxJobRetries
        /\ j.RetryCount < MaxRetrySteps
        /\ node' = [node EXCEPT ![n].jobs =
                      SaveJob(@, [j EXCEPT !.RetryCount = @ + 1], FALSE).jobs]
        /\ last' = [m \in Nodes |-> NoCall]
        /\ UNCHANGED <<msvars, stvars, envars>>

Next ==
    \/ DoBroadcasting
    \/ DoFinalizing
    \/ DoFinalization
    \/ DoMinting
    \/ DoCleanup
    \/ Vote
    \/ ReachFinality
    \/ CompleteTask
    \/ ExecDone
    \/ ExecFail

Spec == Init /\ [][Next]_vars

(***************************************************************************)
(* Two validators replaying the same ordered transactions: they differ in  *)
(* their address and in what their local executors have done to their job  *)
(* stores; no store operation fails.                                       *)
(***************************************************************************)
InitReplica ==
    /\ node = [n \in {"n1", "n2"} |-> InitNode(IF n = "n1" THEN "v1" ELSE "v2")]
    /\ last = [n \in {"n1", "n2"} |-> NoCall]
    /\ msig = [made |-> FALSE, v |-> NoMultiSig]
    /\ mlast = NoOp
    /\ IdleStore
    /\ IdleEngine

ReplayBroadcasting ==
    LET a == Apply(BROADCASTING, NoFailIO) IN node' = a.node /\ last' = a.last /\ UNCHANGED <<msvars, stvars, envars>>

ReplayFinalizing ==
    LET a == Apply(FINALIZING, NoFailIO) IN node' = a.node /\ last' = a.last /\ UNCHANGED <<msvars, stvars, envars>>

ReplayFinalization ==
    LET a == Apply(FINALIZE, NoFailIO) IN node' = a.node /\ last' = a.last /\ UNCHANGED <<msvars, stvars, envars>>

ReplayMinting ==
    LET a == Apply(MINTING, NoFailIO) IN node' = a.node /\ last' = a.last /\ UNCHANGED <<msvars, stvars, envars>>

ReplayCleanup ==
    LET a == Apply(CLEANUP, NoFailIO) IN node' = a.node /\ last' = a.last /\ UNCHANGED <<msvars, stvars, envars>>

NextReplica ==
    \/ ReplayBroadcasting
    \/ ReplayFinalizing
    \/ ReplayFinalization
    \/ ReplayMinting
    \/ ReplayCleanup
    \/ Vote
    \/ ReachFinality
    \/ CompleteTask
    \/ ExecDone
    \/ ExecFail

SpecReplica == InitReplica /\ [][NextReplica]_vars

(***************************************************************************)
(* One validator whose executor may fail every attempt it is allowed: the  *)
(* transactions are replayed without store failures and a job is retried   *)
(* until its RetryCount is MaxJobRetries.                                  *)
(***************************************************************************)
\* an executor that goes on retrying past the maximum
ExecRetryUnbounded ==
    \E n \in Nodes : \E j \in node[n].jobs :
        /\ ~j.Done
        /\ node' = [node EXCEPT ![n].jobs =
                      SaveJob(@, [j EXCEPT !.RetryCount = @ + 1], FALSE).jobs]
        /\ last' = [m \in Nodes |-> NoCall]
        /\ UNCHANGED <<msvars, stvars, envars>>

\* the local executor of node n fails an attempt at job j and saves the
\* count, up to the configured maximum
ExecRetry ==
    \E n \in Nodes : \E j \in node[n].jobs :
        /\ ~j.Done
        /\ j.RetryCount < MaxJobRetries
        /\ node' = [node EXCEPT ![n].jobs =
                      SaveJob(@, [j EXCEPT !.RetryCount = @ + 1], FALSE).jobs]
        /\ last' = [m \in Nodes |-> NoCall]
        /\ UNCHANGED <<msvars, stvars, envars>>

NextRetry ==
    \/ ReplayBroadcasting
    \/ ReplayFinalizing
    \/ ReplayFinalization
    \/ ReplayMinting
    \/ ReplayCleanup
    \/ Vote
    \/ ReachFinality
    \/ CompleteTask
    \/ ExecDone
    \/ ExecRetry

SpecRetry == Init /\ [][NextRetry]_vars

(***************************************************************************)
(* One validator under fair scheduling: every transition is invoked again  *)
(* and again, no store operation fails, the validators vote, finality and  *)
(* the completion flag come, and the executor completes the jobs it finds. *)
(***************************************************************************)
NextLive ==
    \/ ReplayBroadcasting
    \/ ReplayFinalizing
    \/ ReplayFinalization
    \/ ReplayMinting
    \/ ReplayCleanup
    \/ Vote
    \/ ReachFinality
    \/ CompleteTask
    \/ ExecDone
    \/ ExecFail

Fairness ==
    /\ WF_vars(ReplayBroadcasting)
    /\ WF_vars(ReplayFinalizing)
    /\ WF_vars(ReplayFinalization)
    /\ WF_vars(ReplayMinting)
    /\ WF_vars(ReplayCleanup)
    /\ WF_vars(Vote)
    /\ WF_vars(ReachFinality)
    /\ WF_vars(CompleteTask)
    /\ WF_vars(ExecDone)

SpecLive == Init /\ [][NextLive]_vars /\ Fairness

(***************************************************************************)
(* One multisig: built once, signed in any order by any signer index with  *)
(* any address and signature bytes, and carried through its encoding.      *)
(***************************************************************************)
InitMultiSig ==
    /\ node = [n \in {"n1"} |-> InitNode("v1")]
    /\ last = [n \in {"n1"} |-> NoCall]
    /\ msig = [made |-> FALSE, v |-> NoMultiSig]
    /\ mlast = NoOp
    /\ IdleStore
    /\ IdleEngine

DoNewBTCMultiSig ==
    /\ ~msig.made
    /\ \E k \in 0..1, m \in (-1)..(MaxSigners + 1), n \in (-1)..MaxSigners :
          LET r == NewBTCMultiSig(MsgOf(k), m, SignersOf(n))
          IN  /\ msig' = [made |-> r.err = "nil", v |-> r.v]
              /\ mlast' = Op("NewBTCMultiSig", r.err, MsgOf(k), m, SignersOf(n),
                             ZeroSignature)
    /\ UNCHANGED <<trvars, stvars, envars>>

DoAddSignature ==
    /\ msig.made
    /\ \E i \in 0..MaxSigners, d \in 0..1, k \in SignKinds :
          LET s == BTCSignature(i, i + d, k)
              r == AddSignature(msig.v, s)
          IN  /\ msig' = [msig EXCEPT !.v = r.v]
              /\ mlast' = Op("AddSignature", r.err, Nil, 0, Nil, s)
    /\ UNCHANGED <<trvars, stvars, envars>>

\* the multisig is encoded and decoded into a fresh value
DoRoundTrip ==
    /\ msig.made
    /\ LET r == FromBytes(NoMultiSig, Bytes(msig.v))
       IN  /\ msig' = [msig EXCEPT !.v = r.v]
           /\ mlast' = Op("FromBytes", r.err, Nil, 0, Nil, ZeroSignature)
    /\ UNCHANGED <<trvars, stvars, envars>>

NextMultiSig ==
    \/ DoNewBTCMultiSig
    \/ DoAddSignature
    \/ DoRoundTrip

SpecMultiSig == InitMultiSig /\ [][NextMultiSig]_vars

(***************************************************************************)
(* The same multisig, which also decodes encodings that come from outside: *)
(* any threshold, any list of signers, no signature or one signature, of   *)
(* index 0 or of an index outside every list, or bytes that do not decode. *)
(***************************************************************************)
\* the encoding of a document with the given fields
Encoding(dec, m, n, items) ==
    [decodable |-> dec,
     msg |-> MarshalBytes(Nil),
     m |-> m,
     signers |-> MarshalAddresses(SignersOf(n)),
     signatures |-> items]

DoFromBytes ==
    /\ msig.made
    /\ \E dec \in BOOLEAN, m \in (-1)..(MaxSigners + 1), n \in (-1)..MaxSigners,
          i \in {-1, 0, MaxSigners} :
          LET items == IF i < 0 THEN <<>>
                       ELSE <<MarshalSignature(BTCSignature(i, i, 2))>>
              r == FromBytes(msig.v, Encoding(dec, m, n, items))
          IN  /\ dec \/ (m = 0 /\ n = 0 /\ i < 0)
              /\ msig' = [msig EXCEPT !.v = r.v]
              /\ mlast' = Op("FromBytes", r.err, Nil, 0, Nil, ZeroSignature)
    /\ UNCHANGED <<trvars, stvars, envars>>

NextMultiSigDecode ==
    \/ DoNewBTCMultiSig
    \/ DoAddSignature
    \/ DoRoundTrip
    \/ DoFromBytes

SpecMultiSigDecode == InitMultiSig /\ [][NextMultiSigDecode]_vars

(***************************************************************************)
(* The gas-metered chain state under any sequence of Set, Get, Exists and  *)
(* Remove, with a budget of nothing or of BlockGasLimit.                   *)
(***************************************************************************)
IdleNodes ==
    /\ node = [n \in {"n1"} |-> InitNode("v1")]
    /\ last = [n \in {"n1"} |-> NoCall]

IdleMultiSig ==
    /\ msig = [made |-> FALSE, v |-> NoMultiSig]
    /\ mlast = NoOp

\* the key of that number and the value of that many bytes
RawKey(i) == <<107, i>>

RawValue(n) == [i \in 1..n |-> 7]

InitGas ==
    /\ IdleNodes
    /\ IdleMultiSig
    /\ IdleEngine
    /\ \E limited \in BOOLEAN :
          store = GasChainState(EmptyKV,
                     NewGasCalculator(IF limited THEN 0 ELSE BlockGasLimit))
    /\ wrote = EmptyKV
    /\ slast = NoStoreOp

DoGasSet ==
    /\ \E i \in 1..2, n \in 0..MaxValueLen, fail \in BOOLEAN :
          LET r == GasSet(store, RawKey(i), RawValue(n), fail)
          IN  /\ store' = r.cs
              /\ slast' = StoreOp("Set", r.err, RawKey(i), NoTracker,
                                  Slice(RawValue(n)), fail)
    /\ UNCHANGED <<wrote, trvars, msvars, envars>>

DoGasGet ==
    /\ \E i \in 1..2 :
          LET r == GasGet(store, RawKey(i))
          IN  /\ store' = r.cs
              /\ slast' = StoreOp("Get", "nil", RawKey(i), NoTracker, r.value,
                                  FALSE)
    /\ UNCHANGED <<wrote, trvars, msvars, envars>>

DoGasExists ==
    /\ \E i \in 1..2 :
          LET r == GasExists(store, RawKey(i))
          IN  /\ store' = r.cs
              /\ slast' = StoreOp("Exists", "nil", RawKey(i), NoTracker, Nil,
                                  r.exist)
    /\ UNCHANGED <<wrote, trvars, msvars, envars>>

DoGasRemove ==
    /\ \E i \in 1..2 :
          LET r == GasRemove(store, RawKey(i))
          IN  /\ store' = r.cs
              /\ slast' = StoreOp("Remove", "nil", RawKey(i), NoTracker, r.value,
                                  r.ok)
    /\ UNCHANGED <<wrote, trvars, msvars, envars>>

NextGas ==
    \/ DoGasSet
    \/ DoGasGet
    \/ DoGasExists
    \/ DoGasRemove

SpecGas == InitGas /\ [][NextGas]_vars

(***************************************************************************)
(* A tracker store on the chain state: SetTracker, Get and                  *)
(* GetTrackerForLock over a few names, with balances up to MaxBalance.     *)
(* wrote holds, per key prefix + lower-case(name), the tracker of the last *)
(* SetTracker on it that returned no error.                                *)
(***************************************************************************)
\* the names: "A", "a", "tracker_a", "tracker_B"
NameOf(i) ==
    CASE i = 1 -> <<65>>
      [] i = 2 -> <<97>>
      [] i = 3 -> TrackerUnderscore \o <<97>>
      [] OTHER -> TrackerUnderscore \o <<66>>

NameIds == 1..4

InitTrackerStore ==
    /\ IdleNodes
    /\ IdleMultiSig
    /\ IdleEngine
    /\ \E limited \in BOOLEAN :
          store = GasChainState(EmptyKV,
                     NewGasCalculator(IF limited THEN 0 ELSE BlockGasLimit))
    /\ wrote = EmptyKV
    /\ slast = NoStoreOp

\* f: 0 nothing fails, 1 the serializer fails, 2 the chain state fails
DoSetTracker ==
    /\ \E i \in NameIds, b \in 0..MaxBalance, a \in BOOLEAN, f \in 0..2 :
          LET name == NameOf(i)
              r == SetTracker(store, name, Tracker(<<>>, b, a), f = 1, f = 2)
              key == StorePrefix \o ToLower(name)
          IN  /\ store' = r.cs
              /\ wrote' = IF r.err = "nil"
                          THEN [k \in DOMAIN wrote \cup {key} |->
                                   IF k = key THEN Tracker(name, b, a)
                                   ELSE wrote[k]]
                          ELSE wrote
              /\ slast' = StoreOp("SetTracker", r.err, name, Tracker(name, b, a),
                                  Nil, FALSE)
    /\ UNCHANGED <<trvars, msvars, envars>>

DoTrackerGet ==
    /\ \E i \in NameIds :
          LET r == TrackerStoreGet(store, NameOf(i))
          IN  /\ store' = r.cs
              /\ slast' = StoreOp("TrackerGet", r.err, NameOf(i), r.tracker, Nil,
                                  FALSE)
    /\ UNCHANGED <<wrote, trvars, msvars, envars>>

DoGetTrackerForLock ==
    /\ LET r == GetTrackerForLock(store)
       IN  slast' = StoreOp("GetTrackerForLock", r.err, <<>>, r.tracker, Nil,
                            FALSE)
    /\ UNCHANGED <<store, wrote, trvars, msvars, envars>>

NextTrackerStore ==
    \/ DoSetTracker
    \/ DoTrackerGet
    \/ DoGetTrackerForLock

SpecTrackerStore == InitTrackerStore /\ [][NextTrackerStore]_vars

(***************************************************************************)
(* An engine over the tracker states, on which transitions are registered  *)
(* under two names, with valid and invalid states.                         *)
(***************************************************************************)
\* a state the engine does not declare
UndeclaredStatus == 9

InitEngine ==
    /\ IdleNodes
    /\ IdleMultiSig
    /\ IdleStore
    /\ IdleEngine

DoRegister ==
    /\ \E second \in BOOLEAN, fn \in 1..2, from \in 1..3, to \in 0..2 :
          LET t == Transition(IF second THEN FINALIZING ELSE BROADCASTING,
                              IF fn = 1 THEN "Broadcasting" ELSE "Finalizing",
                              IF from = 3 THEN UndeclaredStatus ELSE from,
                              IF to = 0 THEN NoStatus
                              ELSE IF to = 1 THEN BusyFinalizing
                              ELSE UndeclaredStatus)
              r == Register(engine, t)
          IN  /\ engine' = r.engine
              /\ elast' = [op |-> "Register", err |-> r.err, t |-> t]
    /\ UNCHANGED <<trvars, msvars, stvars>>

NextEngine == DoRegister

SpecEngine == InitEngine /\ [][NextEngine]_vars

\* the shape of the state
TypeOK ==
    /\ \A n \in Nodes :
        /\ node[n].tracker.State \in Statuses
        /\ node[n].tracker.Votes \subseteq Validators
        /\ node[n].addr \in Validators
        /\ \A j \in node[n].jobs : j.RetryCount \in 0..MaxJobRetries
    /\ \A n \in Nodes : last[n].name \in TransitionNames \cup {"none"}

(***************************************************************************)
(* What the claims speak of                                                *)
(***************************************************************************)
BroadcastJobID == <<TheTracker, BusyBroadcasting>>

FinalityJobID == <<TheTracker, BusyFinalizing>>

\* the jobs of one type the store holds for the tracker
JobsOfType(jobs, type) ==
    {j \in jobs : j.Type = type /\ j.TrackerName = TheTracker}

\* the statuses in the order of the lifecycle
Chain == <<New, BusyBroadcasting, BusyFinalizing, Finalized, Minted>>

\* the condition under which the transition registered under name advances
QuorumHolds(name, tracker) ==
    CASE name = FINALIZING -> GetVotes(tracker) > 0
      [] name = FINALIZE   -> TrackerFinalized(tracker)
      [] name = MINTING    -> tracker.TaskCompleted
      [] OTHER             -> TRUE

(* C1: every handler, CLEANUP included, returns success only when the
   tracker's State is the transition's From before the call; when State
   differs from From it returns an error and leaves the tracker, the job store
   and the tracker store as they were. *)
C1_SucceedsOnlyFromDeclaredState ==
    [][\A n \in Nodes : \A t \in Transitions :
          last'[n].name = t.Name =>
            /\ last'[n].err = "nil" => node[n].tracker.State = t.From
            /\ node[n].tracker.State # t.From =>
                  last'[n].err # "nil" /\ node'[n] = node[n]]_vars

(* C2: a BROADCASTING call that succeeds on a tracker in New leaves it in
   BusyBroadcasting with exactly one broadcast job stored for it; a
   BROADCASTING call on a tracker in BusyBroadcasting returns an error (the
   state error, when the context is of the right type), leaves State at
   BusyBroadcasting and leaves the job store as it was, so no second job is
   stored and the stored one is not modified. *)
C2_BroadcastOnce ==
    [][\A n \in Nodes :
          last'[n].name = BROADCASTING =>
            /\ (node[n].tracker.State = New /\ last'[n].err = "nil") =>
                  /\ node'[n].tracker.State = BusyBroadcasting
                  /\ Cardinality(JobsOfType(node'[n].jobs, JobTypeETHBroadcast)) = 1
                  /\ JobsWithID(node'[n].jobs, BroadcastJobID) =
                        JobsOfType(node'[n].jobs, JobTypeETHBroadcast)
            /\ node[n].tracker.State = BusyBroadcasting =>
                  /\ last'[n].err # "nil"
                  /\ last'[n].io.castOk => last'[n].err = "state"
                  /\ node'[n].tracker.State = BusyBroadcasting
                  /\ node'[n].jobs = node[n].jobs
                  /\ Cardinality(JobsOfType(node'[n].jobs, JobTypeETHBroadcast)) <= 1]_vars

\* BROADCASTING was applied again to the tracker in BusyBroadcasting, its one
\* broadcast job stored, and failed with the state error
C2_Witness ==
    \E n \in Nodes :
        /\ last[n].name = BROADCASTING
        /\ last[n].err = "state"
        /\ node[n].tracker.State = BusyBroadcasting
        /\ Cardinality(JobsOfType(node[n].jobs, JobTypeETHBroadcast)) = 1

\* every registered From and To is a declared status, To being zero for
\* CLEANUP and only for it
RegisteredOnDeclared ==
    \A t \in Transitions :
        /\ t.From \in Statuses
        /\ t.To \in Statuses \cup {NoStatus}
        /\ t.To = NoStatus <=> t.Name = CLEANUP

(* C3: whatever transitions are invoked, in whatever order, a step changes a
   tracker's State only along one edge of the chain New -> BusyBroadcasting ->
   BusyFinalizing -> Finalized -> Minted, and that edge is the From -> To of
   the transition invoked; every registered From and To is a declared status,
   To being zero for CLEANUP and only for it. *)
C3_ForwardOneEdge ==
    [][/\ RegisteredOnDeclared
       /\ \A n \in Nodes :
            node'[n].tracker.State # node[n].tracker.State =>
              /\ \E i \in 1..(Len(Chain) - 1) :
                    /\ Chain[i] = node[n].tracker.State
                    /\ Chain[i + 1] = node'[n].tracker.State
              /\ \E t \in Transitions :
                    /\ t.Name = last'[n].name
                    /\ t.From = node[n].tracker.State
                    /\ t.To = node'[n].tracker.State]_vars

\* MINTING has just moved the tracker, come all the way from New, to Minted
C3_Witness ==
    \E n \in Nodes :
        /\ last[n].name = MINTING
        /\ last[n].err = "nil"
        /\ node[n].tracker.State = Minted

(* C4: FINALIZING, FINALIZE and MINTING move the State to the transition's To
   only when the phase's condition holds (a vote count above zero, Finalized(),
   TaskCompleted); called in From while the condition does not hold, they leave
   the State at From. *)
C4_AdvanceOnlyOnQuorum ==
    [][\A n \in Nodes : \A t \in Transitions :
          (last'[n].name = t.Name /\ t.Name \in {FINALIZING, FINALIZE, MINTING}) =>
            /\ (node'[n].tracker.State = t.To /\ node[n].tracker.State # t.To) =>
                  /\ node[n].tracker.State = t.From
                  /\ QuorumHolds(t.Name, node[n].tracker)
            /\ (node[n].tracker.State = t.From /\ ~QuorumHolds(t.Name, node[n].tracker)) =>
                  node'[n].tracker.State = t.From]_vars

\* FINALIZE was called on an unfinalized tracker in BusyFinalizing and
\* returned success, the State still BusyFinalizing
C4_Witness ==
    \E n \in Nodes :
        /\ last[n].name = FINALIZE
        /\ last[n].err = "nil"
        /\ node[n].tracker.State = BusyFinalizing
        /\ ~TrackerFinalized(node[n].tracker)

(* C5: CLEANUP on a Minted tracker whose broadcasting job and finality-check
   job are both stored, no store operation failing, returns success and leaves
   neither job in the job store and no record of the tracker in the tracker
   store. *)
C5_CleanupDeletesAll ==
    [][\A n \in Nodes :
          (/\ last'[n].name = CLEANUP
           /\ last'[n].io = NoFailIO
           /\ node[n].tracker.State = Minted
           /\ JobsWithID(node[n].jobs, BroadcastJobID) # {}
           /\ JobsWithID(node[n].jobs, FinalityJobID) # {}
           /\ TheTracker \in node[n].tstore) =>
            /\ last'[n].err = "nil"
            /\ JobsWithID(node'[n].jobs, BroadcastJobID) = {}
            /\ JobsWithID(node'[n].jobs, FinalityJobID) = {}
            /\ TheTracker \notin node'[n].tstore]_vars

(* C6: Cleanup swallows no deletion failure: whenever it returns success the
   broadcasting job, the finality-check job and the tracker record are all
   gone, and whenever DeleteJob fails on the stored broadcasting job it returns
   an error. *)
C6_CleanupPropagatesDeletionFailure ==
    [][\A n \in Nodes :
          last'[n].name = CLEANUP =>
            /\ last'[n].err = "nil" =>
                  /\ JobsWithID(node'[n].jobs, BroadcastJobID) = {}
                  /\ JobsWithID(node'[n].jobs, FinalityJobID) = {}
                  /\ TheTracker \notin node'[n].tstore
            /\ (/\ last'[n].io.castOk
                /\ last'[n].io.delFail1
                /\ JobsWithID(node[n].jobs, BroadcastJobID) # {}) =>
                  last'[n].err # "nil"]_vars

\* Cleanup met a failing DeleteJob on the stored broadcasting job and
\* returned its error
C6_Witness ==
    \E n \in Nodes :
        /\ last[n].name = CLEANUP
        /\ last[n].io.castOk
        /\ last[n].io.delFail1
        /\ last[n].err = "deletejob"
        /\ JobsWithID(node[n].jobs, BroadcastJobID) # {}

(* C7: a handler call that returns an error, for whatever reason, leaves the
   tracker's State and fields, the job store and the tracker store exactly as
   they were before the call. *)
C7_ErrorLeavesAllUnchanged ==
    [][\A n \in Nodes :
          (last'[n].name \in TransitionNames /\ last'[n].err # "nil") =>
            node'[n] = node[n]]_vars

(* C8: two validators that start from the same tracker and process the same
   transition invocations have, after every invocation, the same success or
   error outcome and the same tracker State, whatever their addresses and the
   contents and Done flags of their job stores. *)
C8_ReplicasAgree ==
    \A n1 \in Nodes, n2 \in Nodes :
        /\ (last[n1].err = "nil") <=> (last[n2].err = "nil")
        /\ node[n1].tracker.State = node[n2].tracker.State

(* C9: the job store never holds two jobs under one (TrackerName, TargetState)
   key, and the check-finality job that Finalizing creates and Finalization
   creates again is one stored job, under the key of BusyFinalizing. *)
C9_OneJobPerKey ==
    \A n \in Nodes :
        /\ \A j1 \in node[n].jobs, j2 \in node[n].jobs :
              JobID(j1) = JobID(j2) => j1 = j2
        /\ Cardinality(JobsOfType(node[n].jobs, JobTypeETHCheckfinalty)) <= 1
        /\ JobsOfType(node[n].jobs, JobTypeETHCheckfinalty)
              \subseteq JobsWithID(node[n].jobs, FinalityJobID)

\* Finalization has saved the check-finality job over the one already stored
\* under the same key, and one job is stored
C9_Witness ==
    \E n \in Nodes :
        /\ last[n].name = FINALIZE
        /\ last[n].err = "nil"
        /\ FinalityJobID \in last[n].resaved
        /\ Cardinality(JobsWithID(node[n].jobs, FinalityJobID)) = 1

(* C10: a handler call that creates a job under a key already stored leaves
   the stored job's RetryCount and Done as they were. *)
C10_CreateKeepsStoredJob ==
    [][\A n \in Nodes : \A id \in last'[n].resaved :
          \A j \in JobsWithID(node[n].jobs, id) :
              \E k \in JobsWithID(node'[n].jobs, id) :
                  k.RetryCount = j.RetryCount /\ k.Done = j.Done]_vars

\* the stored jobs that have used up their retries without being done
Exhausted(jobs) ==
    {j \in jobs : j.RetryCount = MaxJobRetries /\ ~j.Done}

(* C11: in every reachable state the RetryCount of every stored job is at
   most MaxJobRetries, which is 10. *)
C11_RetryCountBounded ==
    /\ MaxJobRetries = 10
    /\ \A n \in Nodes : \A j \in node[n].jobs : j.RetryCount <= MaxJobRetries

\* a stored job has failed all the attempts it is allowed
C11_Witness ==
    \E n \in Nodes : Exhausted(node[n].jobs) # {}

(* C12: once the job under a key has RetryCount 10 and is not done, no step
   changes it while it is stored: no executor attempt, and no transition
   invocation, re-invoked FINALIZING and FINALIZE included, gives the key
   another RetryCount or Done flag. *)
C12_ExhaustedJobStays ==
    [][\A n \in Nodes : \A j \in Exhausted(node[n].jobs) :
          \A k \in JobsWithID(node'[n].jobs, JobID(j)) : k = j]_vars

(* C13: while the job of the tracker's current phase, the one stored under
   (TrackerName, State), has RetryCount 10 and is not done, no transition
   invocation moves the tracker's State. *)
C13_NoAdvancePastFailedJob ==
    [][\A n \in Nodes :
          (\E j \in Exhausted(node[n].jobs) :
              /\ JobID(j) = GetJobID(node[n].tracker, node[n].tracker.State)
              /\ j \in node'[n].jobs) =>
            node'[n].tracker.State = node[n].tracker.State]_vars

\* the slots of v that hold at least one signature byte
Filled(v) ==
    {i \in 1..Len(v.Signatures) : Len(v.Signatures[i].Sign.elems) > 0}

\* the multisig with the same Msg, M and Signers and no signature attached
Unsigned(v) ==
    MultiSig(v.Msg, v.M, v.Signers,
             [i \in 1..Len(v.Signers.elems) |-> ZeroSignature])

(* C14: Address() depends only on Msg, M and Signers: every AddSignature
   call, at whatever index and in whatever order, leaves Address() as it
   was, and it is the Address() of the multisig with no signature attached. *)
C14_AddressIgnoresSignatures ==
    [][mlast'.op = "AddSignature" =>
          /\ Address(msig'.v) = Address(msig.v)
          /\ Address(msig'.v) = Address(Unsigned(msig'.v))]_vars

\* the signature of index 0 has just been attached after that of index 2
C14_Witness ==
    /\ mlast.op = "AddSignature"
    /\ mlast.err = "nil"
    /\ mlast.sig.Index = 0
    /\ {1, 3} \subseteq Filled(msig.v)

(* C15: AddSignature with an Index in range and an Address that is not
   Signers[Index] returns the unexpected-signer error and leaves every slot
   as it was; with the matching Address it writes slot Index only and leaves
   the other slots, Msg, M and Signers as they were. *)
C15_AddSignatureChecksSigner ==
    [][(mlast'.op = "AddSignature" /\ InRange(msig.v, mlast'.sig.Index)) =>
          LET s == mlast'.sig
          IN  IF s.Address # msig.v.Signers.elems[s.Index + 1]
              THEN /\ mlast'.err = "ErrNotExpectedSigner"
                   /\ msig'.v.Signatures = msig.v.Signatures
              ELSE /\ mlast'.err = "nil"
                   /\ msig'.v.Signatures[s.Index + 1] = s
                   /\ \A i \in 1..Len(msig.v.Signatures) :
                         i # s.Index + 1 =>
                             msig'.v.Signatures[i] = msig.v.Signatures[i]
                   /\ Len(msig'.v.Signatures) = Len(msig.v.Signatures)
                   /\ msig'.v.Msg = msig.v.Msg
                   /\ msig'.v.M = msig.v.M
                   /\ msig'.v.Signers = msig.v.Signers]_vars

\* a signature under another signer's address was refused at an index in
\* range, on a multisig that holds a signature
C15_Witness ==
    /\ mlast.op = "AddSignature"
    /\ mlast.err = "ErrNotExpectedSigner"
    /\ InRange(msig.v, mlast.sig.Index)
    /\ Filled(msig.v) # {}

(* C16: IsValid() is true exactly when the slots that hold at least one
   signature byte number at least M, and whenever it is true
   GetSignaturesInOrder() returns at least M signatures. *)
C16_IsValidCountsNonEmpty ==
    msig.made =>
        /\ IsValid(msig.v) <=> Cardinality(Filled(msig.v)) >= msig.v.M
        /\ IsValid(msig.v) => Len(GetSignaturesInOrder(msig.v)) >= msig.v.M

(* C17: FromBytes(Bytes(m)) into a fresh value succeeds, reproduces Msg, M
   and Signers, has len(Signers) slots, holds at every slot of m that holds
   signature bytes the same Index, Address and bytes, and holds no signature
   bytes in any other slot. *)
C17_RoundTrip ==
    msig.made =>
        LET r == FromBytes(NoMultiSig, Bytes(msig.v))
        IN  /\ r.err = "nil"
            /\ r.v.Msg = msig.v.Msg
            /\ r.v.M = msig.v.M
            /\ r.v.Signers = msig.v.Signers
            /\ Len(r.v.Signatures) = Len(msig.v.Signers.elems)
            /\ \A i \in 1..Len(r.v.Signatures) :
                  IF i \in Filled(msig.v)
                  THEN r.v.Signatures[i] = msig.v.Signatures[i]
                  ELSE Len(r.v.Signatures[i].Sign.elems) = 0

\* a multisig of three signers with the slot of index 0 filled and another
\* slot empty has gone through its encoding
C17_Witness ==
    /\ mlast.op = "FromBytes"
    /\ mlast.err = "nil"
    /\ Len(msig.v.Signatures) = 3
    /\ 1 \in Filled(msig.v)
    /\ Cardinality(Filled(msig.v)) < 3

(* C18: NewBTCMultiSig fails with the missing-signers error when signers is
   nil or empty, fails with the invalid-threshold error when m < 0 or
   m > len(signers), and otherwise returns the multisig of the given Msg, M
   and Signers with len(signers) empty slots. *)
C18_NewValidatesArguments ==
    mlast.op = "NewBTCMultiSig" =>
        IF mlast.signers.isNil \/ Len(mlast.signers.elems) = 0
        THEN mlast.err = "ErrMissSigners"
        ELSE IF mlast.m < 0 \/ mlast.m > Len(mlast.signers.elems)
        THEN mlast.err = "ErrInvalidThreshold"
        ELSE /\ mlast.err = "nil"
             /\ msig.made
             /\ msig.v = MultiSig(mlast.msg, mlast.m, mlast.signers,
                                  [i \in 1..Len(mlast.signers.elems) |->
                                      ZeroSignature])

(* C19: GetSignaturesInOrder() returns the signature bytes of the slots that
   hold signature bytes, one entry per such slot, by ascending signer index,
   and nothing for the other slots, in whatever order they were attached. *)
C19_SignaturesInSignerOrder ==
    msig.made =>
        LET r == GetSignaturesInOrder(msig.v)
        IN  /\ Len(r) = Cardinality(Filled(msig.v))
            /\ \E f \in [1..Len(r) -> Filled(msig.v)] :
                  /\ \A j \in 1..Len(r), k \in 1..Len(r) : j < k => f[j] < f[k]
                  /\ \A k \in 1..Len(r) :
                        r[k] = msig.v.Signatures[f[k]].Sign.elems

\* the signature of index 0 was attached after that of index 2, the slot of
\* index 1 holding no signature bytes
C19_Witness ==
    /\ mlast.op = "AddSignature"
    /\ mlast.err = "nil"
    /\ mlast.sig.Index = 0
    /\ Filled(msig.v) = {1, 3}

(* C20: every multisig got from a successful NewBTCMultiSig, then any
   AddSignature calls and FromBytes calls on decodable encodings, has
   0 <= M <= len(Signers) and len(Signatures) = len(Signers). *)
C20_ThresholdWithinSigners ==
    msig.made =>
        /\ 0 <= msig.v.M
        /\ msig.v.M <= Len(msig.v.Signers.elems)
        /\ Len(msig.v.Signatures) = Len(msig.v.Signers.elems)

\* what the operation recorded in op is charged when it is performed
ChargeOf(op) ==
    CASE op.op = "Set"    -> WRITEFLAT + WRITEBYTES * Len(op.value.elems)
      [] op.op = "Get"    -> READFLAT + READBYTES * Len(op.value.elems)
      [] op.op = "Exists" -> CHECKEXIST
      [] op.op = "Remove" -> DELETE
      [] OTHER            -> 0

\* the operation recorded in op was stopped by the gas limit
StoppedByGas(op) ==
    CASE op.op = "Set"    -> op.err = "ErrExceedGasLimit"
      [] op.op = "Get"    -> op.value = Nil
      [] op.op = "Exists" -> ~op.flag
      [] op.op = "Remove" -> op.value = Nil /\ ~op.flag
      [] OTHER            -> FALSE

(* C25: gas is charged against one running budget: every Set, Get, Exists and
   Remove that is performed raises GetConsumed() by its cost (Set of n bytes
   200 + 20n, Get of n bytes 20 + 2n, Exists 20, Remove 50), and once
   GetConsumed() has reached the limit every further operation is stopped:
   Set fails with ErrExceedGasLimit, Get returns nil, Exists false, Remove
   (nil, false). *)
C25_GasChargedAndEnforced ==
    [][slast'.op \in {"Set", "Get", "Exists", "Remove"} =>
          IF IsEnough(store.gas)
          THEN StoppedByGas(slast')
          ELSE slast'.err = "nil" =>
                  GetConsumed(store'.gas) = GetConsumed(store.gas) + ChargeOf(slast')]_vars

(* C26: a Set on the gas-metered chain state that returns an error, for the
   gas limit or for a failure of the store under it, leaves the value of
   every key, the key of the call included, as it was. *)
C26_FailedSetWritesNothing ==
    [][(slast'.op \in {"Set", "SetTracker"} /\ slast'.err # "nil") =>
          store'.kv = store.kv]_vars

\* a Set of another value on a key that holds one has failed in the store
\* under the gas meter
C26_Witness ==
    /\ slast.op = "Set"
    /\ slast.err = "ErrSetFailed"
    /\ slast.key \in DOMAIN store.kv
    /\ store.kv[slast.key] # slast.value.elems

\* the trackers stored through SetTracker, and those of them that are available
StoredTrackers == {wrote[k] : k \in DOMAIN wrote}

AvailableStored == {t \in StoredTrackers : IsAvailable(t)}

\* the available stored trackers of the lowest balance
LowestAvailable ==
    {t \in AvailableStored :
        \A u \in AvailableStored : GetBalance(t) <= GetBalance(u)}

\* the store key of a stored tracker
StoreKeyOf(t) == StorePrefix \o ToLower(t.Name)

(* C21: GetTrackerForLock returns a stored tracker that is available and whose
   CurrentBalance is the lowest among the stored available trackers, whatever
   their names, and fails with "no tracker found" exactly when no stored
   tracker is available. *)
C21_LockPicksLowestAvailable ==
    slast.op = "GetTrackerForLock" =>
        IF AvailableStored = {}
        THEN slast.err = "no tracker found"
        ELSE slast.err = "nil" /\ slast.tracker \in LowestAvailable

(* C22: when several available trackers share the lowest CurrentBalance,
   GetTrackerForLock returns the one of them whose store key is the smallest
   in ascending key order. *)
C22_TieGoesToSmallestKey ==
    (slast.op = "GetTrackerForLock" /\ slast.err = "nil") =>
        \A t \in LowestAvailable :
            \/ StoreKeyOf(t) = StoreKeyOf(slast.tracker)
            \/ KeyLess(StoreKeyOf(slast.tracker), StoreKeyOf(t))

(* C23: the keys of the chain state are the keys prefix + lower-case(name) a
   SetTracker has written; Get(name) fails with ErrTrackerNotFound exactly when
   no SetTracker has written prefix + lower-case(name), and otherwise returns
   the tracker of the last SetTracker on that key, whatever was set on other
   keys since; right after a successful SetTracker(name, t), Get(name) returns
   t. *)
C23_GetReturnsWhatWasSet ==
    /\ DOMAIN store.kv = DOMAIN wrote
    /\ slast.op = "TrackerGet" =>
          LET key == StorePrefix \o ToLower(slast.key)
          IN  /\ (slast.err = "ErrTrackerNotFound") <=> (key \notin DOMAIN wrote)
              /\ key \in DOMAIN wrote =>
                    slast.err = "nil" /\ slast.tracker = wrote[key]
    /\ (slast.op = "SetTracker" /\ slast.err = "nil") =>
          LET got == TrackerStoreGet(store, slast.key)
          IN  got.err = "nil" /\ got.tracker = slast.tracker

\* a Get by a name found the tracker set under the other case of the name,
\* with a tracker stored under another key too
C23_Witness ==
    /\ slast.op = "TrackerGet"
    /\ slast.err = "nil"
    /\ slast.tracker.Name # slast.key
    /\ Cardinality(DOMAIN wrote) >= 2

(* C24: registering a transition whose name is already registered on the
   engine fails, with ErrDuplicateName when its states are declared, and
   leaves the transitions of the engine, the From, To and handler of the first
   registration included, as they were. *)
C24_DuplicateNameRejected ==
    [][(elast'.op = "Register" /\ \E r \in engine : r.Name = elast'.t.Name) =>
          /\ elast'.err # "nil"
          /\ (elast'.t.From \in Statuses /\ elast'.t.To \in Statuses \cup {NoStatus})
                => elast'.err = "ErrDuplicateName"
          /\ engine' = engine]_vars

\* a second registration under a registered name, with another From, To and
\* handler than the first, was refused as a duplicate
C24_Witness ==
    /\ elast.op = "Register"
    /\ elast.err = "ErrDuplicateName"
    /\ \E r \in engine :
          /\ r.Name = elast.t.Name
          /\ r.From # elast.t.From
          /\ r.To # elast.t.To
          /\ r.Fn # elast.t.Fn

(* C27: whenever a transition handler returns success the tracker is in the
   transition's declared To (BROADCASTING BusyBroadcasting, FINALIZING
   BusyFinalizing, FINALIZE Finalized, MINTING Minted) or, for CLEANUP,
   deleted from the tracker store. *)
C27_SuccessMeansTo ==
    \A n \in Nodes :
        (last[n].name \in TransitionNames /\ last[n].err = "nil") =>
            IF last[n].name = CLEANUP
            THEN TheTracker \notin node[n].tstore
            ELSE node[n].tracker.State = TransitionOf(last[n].name).To

(* C28: under fair invocation of every transition, with votes, finality and
   the completion flag coming and no store operation failing, the tracker is
   eventually deleted from the tracker store and none of its jobs is left in
   the job store. *)
C28_EventuallyCleanedUp ==
    <>(\A n \in Nodes : TheTracker \notin node[n].tstore /\ node[n].jobs = {})

(* C29: a FINALIZING or FINALIZE invocation on a validator that has recorded
   its own vote leaves the job store as it was and does not fail on reading
   or saving a job. *)
C29_VotedTouchesNoJob ==
    [][\A n \in Nodes :
          (last'[n].name \in {FINALIZING, FINALIZE}
           /\ CheckIfVoted(node[n].tracker, node[n].addr)) =>
              /\ node'[n].jobs = node[n].jobs
              /\ last'[n].err \notin {"getjob", "savejob"}]_vars

\* FINALIZING succeeded and advanced the tracker on a validator that had voted
\* and whose job store holds no broadcast job to read
C29_Witness ==
    \E n \in Nodes :
        /\ last[n].name = FINALIZING
        /\ last[n].err = "nil"
        /\ CheckIfVoted(node[n].tracker, node[n].addr)
        /\ node[n].tracker.State = BusyFinalizing
        /\ JobsWithID(node[n].jobs, BroadcastJobID) = {}

(* C30: in every reachable state, on every validator, the check-finality job
   of the tracker is in the job store only if the broadcast job of the tracker
   is there and done. *)
C30_FinalityJobAfterBroadcastDone ==
    \A n \in Nodes :
        JobsWithID(node[n].jobs, FinalityJobID) # {} =>
            \E j \in JobsWithID(node[n].jobs, BroadcastJobID) : IsDone(j)

(* C31: AddSignature with an Index that is negative or not below
   len(Signers) does not crash: it returns an error value and leaves the
   multisig as it was. *)
C31_BadIndexRejected ==
    [][(mlast'.op = "AddSignature" /\ ~InRange(msig.v, mlast'.sig.Index)) =>
          /\ mlast'.err \notin {"nil", "panic"}
          /\ msig'.v = msig.v]_vars

(* C32: once IsValid() is true it stays true after every further AddSignature
   call, accepted or refused, with any signature contents, and after a
   Bytes/FromBytes round trip. *)
C32_ValidityMonotone ==
    [][(msig.made /\ IsValid(msig.v)) => IsValid(msig'.v)]_vars

(* C33: in every reachable state in which the tracker's State is
   BusyBroadcasting, the broadcast job keyed (TrackerName, BusyBroadcasting)
   is in the job store, whatever transitions were invoked, CLEANUP before
   Minted included. *)
C33_BroadcastJobWhileBroadcasting ==
    \A n \in Nodes :
        node[n].tracker.State = BusyBroadcasting =>
            JobsWithID(node[n].jobs, BroadcastJobID) # {}

(* C34: SetTracker under one name leaves the record of every tracker stored
   under another name, one that differs only in letter case included, as it
   was, and Get(n) returns a tracker whose Name is n. *)
C34_NamesAreUniqueKeys ==
    [][/\ (slast'.op = "SetTracker" /\ slast'.err = "nil") =>
             \A k \in DOMAIN store.kv :
                 Deserialize(store.kv[k]).tracker.Name # slast'.key =>
                     /\ k \in DOMAIN store'.kv
                     /\ store'.kv[k] = store.kv[k]
       /\ (slast'.op = "TrackerGet" /\ slast'.err = "nil") =>
             slast'.tracker.Name = slast'.key]_vars

====
